---- MODULE Spec2Model ----
(***************************************************************************)
(* A model of chinese_holiday.py: the holiday cache file, the notice       *)
(* locator, the notice parser and the date classifier.                     *)
(*                                                                         *)
(* Representation.                                                         *)
(*   - An ISO date string "YYYY-MM-DD" is the triple <<y, m, d>>.          *)
(*   - A datetime at midnight is its proleptic Gregorian ordinal, as       *)
(*     datetime.toordinal() computes it; strptime is ToOrdinal and         *)
(*     strftime is FromOrdinal.                                            *)
(*   - A four-digit year string is the integer it spells.                  *)
(*   - A line of notice text is a sequence of tokens, the lexical units    *)
(*     the regular expressions of the parser recognise.                    *)
(*   - A call returns a record; field raised tells whether it raised.      *)
(***************************************************************************)
EXTENDS Integers, Sequences, FiniteSets, TLC

VARIABLES file, last, prev

vars == <<file, last, prev>>

(***************************************************************************)
(* Bounds of the model                                                     *)
(***************************************************************************)
\* query dates are WindowStart .. WindowStart + WindowDays, plus SpecialDates
WindowDays == 7
\* longest list of search results enumerated for search_notice_url
MaxItems == 3
\* longest run of day mentions enumerated in a compensating-workday phrase
MaxRun == 2

(***************************************************************************)
(* Calendar: datetime.date arithmetic                                      *)
(***************************************************************************)
FirstYear == 2010
LastYear == 2024

IsLeap(y) == (y % 4 = 0) /\ ((y % 100 # 0) \/ (y % 400 = 0))

DaysInMonth(y, m) ==
    IF m = 2 THEN (IF IsLeap(y) THEN 29 ELSE 28)
    ELSE IF m \in {4, 6, 9, 11} THEN 30 ELSE 31

DaysBeforeYear(y) ==
    LET p == y - 1 IN 365 * p + (p \div 4) - (p \div 100) + (p \div 400)

RECURSIVE DaysBeforeMonth(_, _)
DaysBeforeMonth(y, m) ==
    IF m = 1 THEN 0 ELSE DaysBeforeMonth(y, m - 1) + DaysInMonth(y, m - 1)

\* strptime accepts the fields of a date only when they name a calendar day
ValidDate(s) ==
    /\ s[1] \in 1..9999
    /\ s[2] \in 1..12
    /\ s[3] \in 1..DaysInMonth(s[1], s[2])

\* datetime.strptime(s, "%Y-%m-%d"), as an ordinal
ToOrdinal(s) == DaysBeforeYear(s[1]) + DaysBeforeMonth(s[1], s[2]) + s[3]

\* datetime.strftime("%Y-%m-%d") of the day with ordinal n: the year and the
\* month are estimated from the 400-year cycle and the day of the year, then
\* corrected
FromOrdinal(n) ==
    LET y0 == ((n * 400) \div 146097) + 1
        y  == CHOOSE yy \in (y0 - 1) .. (y0 + 1) :
                 DaysBeforeYear(yy) < n /\ n <= DaysBeforeYear(yy + 1)
        doy == n - DaysBeforeYear(y)
        m0 == ((doy - 1) \div 31) + 1
        m  == CHOOSE mm \in {m0, m0 + 1} :
                 /\ mm <= 12
                 /\ DaysBeforeMonth(y, mm) < doy
                 /\ doy <= DaysBeforeMonth(y, mm) + DaysInMonth(y, mm)
    IN  <<y, m, doy - DaysBeforeMonth(y, m)>>

\* datetime.weekday(): Monday is 0, Sunday is 6
Weekday(n) == (n + 6) % 7

\* date_time.strftime("%Y")
YearOf(s) == s[1]

(***************************************************************************)
(* Call results                                                            *)
(***************************************************************************)
Return(v) == [raised |-> FALSE, exc |-> "", val |-> v]

Raise(e) == [raised |-> TRUE, exc |-> e, val |-> <<>>]

\* Python's None where a URL is expected; a URL is the number of its page
None == 0

(***************************************************************************)
(* Notice text.  A token is a record [t, y, m, d]:                         *)
(*   "title"    "国务院办公厅关于YYYY年", with y the year                  *)
(*   "date"     "[YYYY年][MM月]DD日"; y = 0 or m = 0 when that part is not *)
(*              written (a written year always comes with a month)         *)
(*   "zhi" 至   "fangjia" 放假   "shangban" 上班   "period" 。   "sep" 、  *)
(*   "comma" ， "lparen" ( or （  "rparen" ) or ）  "text" other words     *)
(***************************************************************************)
Tok(t) == [t |-> t, y |-> 0, m |-> 0, d |-> 0]

Title(y) == [t |-> "title", y |-> y, m |-> 0, d |-> 0]

Day(y, m, d) == [t |-> "date", y |-> y, m |-> m, d |-> d]

\* a regex group that did not take part in the match, or the empty string
NoneTok == Tok("none")

IsTok(line, i, t) == i \in 1..Len(line) /\ line[i].t = t

Min(S) == CHOOSE x \in S : \A z \in S : x <= z

\* number of characters of a token, as far as P_LINE_FIX can tell them apart
CharLen(tok) ==
    IF tok.t \in {"zhi", "period", "sep", "comma", "lparen", "rparen"}
    THEN 1 ELSE 2

RECURSIVE Chars(_, _)
Chars(line, i) ==
    IF i > Len(line) THEN 0 ELSE CharLen(line[i]) + Chars(line, i + 1)

\* P_LINE_FIX.sub("", line) with P_LINE_FIX = [(（][^)）]+. : an opening
\* parenthesis, at least one character that closes none, then any character
RECURSIVE FixFrom(_, _)
FixFrom(line, i) ==
    IF i > Len(line) THEN <<>>
    ELSE IF line[i].t # "lparen" THEN <<line[i]>> \o FixFrom(line, i + 1)
    ELSE LET closes == {j \in (i + 1)..Len(line) : line[j].t = "rparen"}
         IN  IF closes # {}
             THEN IF Min(closes) = i + 1
                  THEN <<line[i]>> \o FixFrom(line, i + 1)
                  ELSE FixFrom(line, Min(closes) + 1)
             ELSE IF Chars(line, i + 1) >= 2
                  THEN <<>>
                  ELSE <<line[i]>> \o FixFrom(line, i + 1)

fix_line(line) == FixFrom(line, 1)

\* "".join(holiday_lines)
RECURSIVE Join(_)
Join(lines) == IF lines = <<>> THEN <<>> ELSE Head(lines) \o Join(Tail(lines))

\* re.match(r"国务院办公厅关于(\d{4})年", joined): the year, or 0 for no match
MatchYear(joined) == IF IsTok(joined, 1, "title") THEN joined[1].y ELSE 0

(***************************************************************************)
(* reg_holiday_occur: start day, optionally 至 and an end day, then 放假.  *)
(* The pattern has two capturing groups.                                   *)
(***************************************************************************)
HolidayMatchAt(line, i) ==
    IF IsTok(line, i, "date") /\ line[i].m # 0
    THEN IF IsTok(line, i + 1, "zhi") /\ IsTok(line, i + 2, "date")
            /\ IsTok(line, i + 3, "fangjia")
         THEN [len |-> 4, groups |-> <<line[i], line[i + 2]>>]
         ELSE IF IsTok(line, i + 1, "fangjia")
         THEN [len |-> 2, groups |-> <<line[i], NoneTok>>]
         ELSE [len |-> 0, groups |-> <<>>]
    ELSE [len |-> 0, groups |-> <<>>]

\* reg_holiday_occur.finditer(line): the groups() of each match, left to right
RECURSIVE HolidayOccurs(_, _)
HolidayFrom(line, i, mt) ==
    IF mt.len = 0 THEN HolidayOccurs(line, i + 1)
    ELSE <<mt.groups>> \o HolidayOccurs(line, i + mt.len)

HolidayOccurs(line, i) ==
    IF i > Len(line) THEN <<>>
    ELSE HolidayFrom(line, i, HolidayMatchAt(line, i))

\* the body of the loop over the suspension matches:
\*   first_holiday, last_holiday, count_day = holiday_occur.groups()
\* unpacks groups() into three names, then counts count_day days from the start
HolidaySpan(first, count_day) ==
    IF ~ValidDate(first) THEN Raise("ValueError")
    ELSE Return(<<FromOrdinal(ToOrdinal(first)),
                  FromOrdinal(ToOrdinal(first) + count_day - 1), FALSE>>)

HolidayOccur(groups, year) ==
    IF Len(groups) # 3 THEN Raise("ValueError")
    ELSE HolidaySpan(<<IF groups[1].y = 0 THEN year ELSE groups[1].y,
                       groups[1].m, groups[1].d>>,
                     IF groups[3].t = "none" THEN 1 ELSE groups[3].d)

RECURSIVE HolidayLoop(_, _, _, _)
HolidayNext(occurs, k, year, acc, r) ==
    IF r.raised THEN r ELSE HolidayLoop(occurs, k + 1, year, Append(acc, r.val))

HolidayLoop(occurs, k, year, acc) ==
    IF k > Len(occurs) THEN Return(acc)
    ELSE HolidayNext(occurs, k, year, acc, HolidayOccur(occurs[k], year))

(***************************************************************************)
(* The compensating-workday pattern                                        *)
(*   ((?:(?:(?:\d{4}年)?\d{1,2}月)?\d{1,2}日、?)+)上班。                   *)
(***************************************************************************)
\* the index after the longest run of "day mention, optional 、" from i
RECURSIVE RunEnd(_, _)
RunEnd(line, i) ==
    IF ~IsTok(line, i, "date") THEN i
    ELSE IF IsTok(line, i + 1, "sep") THEN RunEnd(line, i + 2)
    ELSE RunEnd(line, i + 1)

WorkdayMatch(line, i, e) ==
    IF IsTok(line, i, "date") /\ IsTok(line, e, "shangban")
       /\ IsTok(line, e + 1, "period")
    THEN [len |-> e + 2 - i, work_str |-> SubSeq(line, i, e - 1)]
    ELSE [len |-> 0, work_str |-> <<>>]

WorkdayMatchAt(line, i) == WorkdayMatch(line, i, RunEnd(line, i))

\* re.finditer(..., line): group(1) of each match, left to right
RECURSIVE WorkdayOccurs(_, _)
WorkdayFrom(line, i, mt) ==
    IF mt.len = 0 THEN WorkdayOccurs(line, i + 1)
    ELSE <<mt.work_str>> \o WorkdayOccurs(line, i + mt.len)

WorkdayOccurs(line, i) ==
    IF i > Len(line) THEN <<>>
    ELSE WorkdayFrom(line, i, WorkdayMatchAt(line, i))

\* re.findall(r"(?:(?:\d{4}年)?\d{1,2}月|(?<=、))\d{1,2}日", work_str): a day
\* written without a month is found only right after a 、
RECURSIVE FindWorkdays(_, _)
FindWorkdays(work_str, k) ==
    IF k > Len(work_str) THEN <<>>
    ELSE IF /\ work_str[k].t = "date"
            /\ (work_str[k].m # 0 \/ IsTok(work_str, k - 1, "sep"))
         THEN <<work_str[k]>> \o FindWorkdays(work_str, k + 1)
         ELSE FindWorkdays(work_str, k + 1)

\* "%Y年%m月%d日" parsed and written back as "%Y-%m-%d"
WorkdayDate(w) ==
    IF ~ValidDate(<<w.y, w.m, w.d>>) THEN Raise("ValueError")
    ELSE Return(FromOrdinal(ToOrdinal(<<w.y, w.m, w.d>>)))

\* a workday with the month of before_workday, then the year of the notice,
\* filled in where it is not written
FillMonth(workday, before_workday) ==
    IF workday.m = 0
    THEN Day(before_workday.y, before_workday.m, workday.d)
    ELSE workday

FillYear(workday, year) ==
    IF workday.y = 0 THEN Day(year, workday.m, workday.d) ELSE workday

\* the loop over workdays, carrying before_workday
RECURSIVE WorkdayLoop(_, _, _, _, _)
WorkdayAppend(workdays, k, workday, year, acc, iso) ==
    IF iso.raised THEN iso
    ELSE WorkdayLoop(workdays, k + 1, workday, year,
                     Append(acc, <<iso.val, iso.val, TRUE>>))

WorkdayStep(workdays, k, workday, year, acc) ==
    WorkdayAppend(workdays, k, workday, year, acc, WorkdayDate(workday))

WorkdayLoop(workdays, k, before_workday, year, acc) ==
    IF k > Len(workdays) THEN Return(acc)
    ELSE IF workdays[k].m = 0 /\ before_workday.t = "none"
    THEN Raise("ValueError")          \* "".index("月")
    ELSE WorkdayStep(workdays, k,
                     FillYear(FillMonth(workdays[k], before_workday), year),
                     year, acc)

RECURSIVE WorkdayRuns(_, _, _, _)
WorkdayRunsNext(runs, k, year, r) ==
    IF r.raised THEN r ELSE WorkdayRuns(runs, k + 1, year, r.val)

WorkdayRuns(runs, k, year, acc) ==
    IF k > Len(runs) THEN Return(acc)
    ELSE WorkdayRunsNext(runs, k, year,
             WorkdayLoop(FindWorkdays(runs[k], 1), 1, NoneTok, year, acc))

\* one iteration of "for holiday_line in holiday_lines": the suspensions of
\* the fixed line, then its workdays
ThenWorkdays(line, year, h) ==
    IF h.raised THEN h
    ELSE WorkdayRuns(WorkdayOccurs(line, 1), 1, year, h.val)

ParseFixed(line, year, acc) ==
    ThenWorkdays(line, year, HolidayLoop(HolidayOccurs(line, 1), 1, year, acc))

ParseLine(holiday_line, year, acc) ==
    ParseFixed(fix_line(holiday_line), year, acc)

RECURSIVE ParseLines(_, _, _, _)
ParseLinesNext(lines, k, year, r) ==
    IF r.raised THEN r ELSE ParseLines(lines, k + 1, year, r.val)

ParseLines(lines, k, year, acc) ==
    IF k > Len(lines) THEN Return(acc)
    ELSE ParseLinesNext(lines, k, year, ParseLine(lines[k], year, acc))

\* a fetched page: status "ok", "error" (requests.get raises) or "no_content"
\* (no element with id UCAP-CONTENT); lines is text.split()
Page(status, lines) == [status |-> status, lines |-> lines]

\* return (year, holiday_data)
Parsed(year, r) == IF r.raised THEN r ELSE Return(<<year, r.val>>)

\* the body of parse_holiday_info once the text is split and the year matched
ParseText(holiday_lines, year) ==
    IF year = 0 THEN Raise("Exception: Wrong message")
    ELSE Parsed(year, ParseLines(holiday_lines, 1, year, <<>>))

\* parse_holiday_info(url) against the pages the web serves
parse_holiday_info(url, pages) ==
    IF url = None THEN Raise("MissingSchema")
    ELSE IF pages[url].status = "error" THEN Raise("ConnectionError")
    ELSE IF pages[url].status = "no_content" THEN Raise("AttributeError")
    ELSE ParseText(pages[url].lines, MatchYear(Join(pages[url].lines)))

(***************************************************************************)
(* search_notice_url.  A search response is a record                       *)
(*   [post, body, list]: post is "ok" or "error" (requests.post raises),   *)
(*   body is "json", "not_json" (response.json() raises) or "no_keys" (the *)
(*   result/data/middle/list path is missing), list is the result list.    *)
(* An item is [has_title, title, has_url, url]; a title is <<kind, year>>, *)
(* kind "notice" being "国务院办公厅关于{year}年部分节假日安排的通知".     *)
(***************************************************************************)
NoticeTitle(year) == <<"notice", year>>

Item(has_title, title, has_url, url) ==
    [has_title |-> has_title, title |-> title, has_url |-> has_url, url |-> url]

Response(post, body, list) == [post |-> post, body |-> body, list |-> list]

\* the for loop inside the try block: a missing key ends it with None
RECURSIVE ScanItems(_, _, _)
ScanItems(list, k, title) ==
    IF k > Len(list) THEN Return(None)
    ELSE IF ~list[k].has_title THEN Return(None)
    ELSE IF list[k].title = title
         THEN (IF list[k].has_url THEN Return(list[k].url) ELSE Return(None))
    ELSE ScanItems(list, k + 1, title)

search_notice_url(year, resp) ==
    IF resp.post = "error" THEN Raise("ConnectionError")
    ELSE IF resp.body # "json" THEN Return(None)
    ELSE ScanItems(resp.list, 1, NoticeTitle(year))

(***************************************************************************)
(* The cache file HOLIDAY_DATA_PATH: [exists, valid, store].  valid tells  *)
(* whether the content decodes to a JSON object; store maps the years it   *)
(* holds to their lists of <<from_date, to_date, need_work>>.              *)
(***************************************************************************)
File(exists, valid, store) == [exists |-> exists, valid |-> valid, store |-> store]

EmptyDict == <<>>

read_all_holiday(f) == IF f.valid THEN f.store ELSE EmptyDict

save_all_holiday(all_holiday) == File(TRUE, TRUE, all_holiday)

\* all_holiday[year] = holiday_data
SetItem(all_holiday, year, holiday_data) ==
    [y \in (DOMAIN all_holiday) \cup {year} |->
        IF y = year THEN holiday_data ELSE all_holiday[y]]

\* the result of a call that may touch the file: the file afterwards and the
\* number of notices it asked the web for
Out(r, f, fetched) ==
    [raised |-> r.raised, exc |-> r.exc, val |-> r.val, file |-> f,
     fetched |-> fetched]

\* StoreParsed with the check made after the save
StoreParsed_SaveFirst(year, f, parsed) ==
    IF parsed.raised THEN Out(parsed, f, 1)
    ELSE IF ~f.exists
    THEN Out(Raise("UnboundLocalError"), f, 1)
    ELSE IF parsed.val[1] # year \/ Len(parsed.val[2]) = 0
    THEN Out(Raise("Exception: Can not parse"),
             save_all_holiday(SetItem(read_all_holiday(f), year, parsed.val[2])),
             1)
    ELSE Out(Return(parsed.val[2]),
             save_all_holiday(SetItem(read_all_holiday(f), year, parsed.val[2])),
             1)

\* StoreParsed without the call of save_all_holiday
StoreParsed_NoSave(year, f, parsed) ==
    IF parsed.raised THEN Out(parsed, f, 1)
    ELSE IF parsed.val[1] # year \/ Len(parsed.val[2]) = 0
    THEN Out(Raise("Exception: Can not parse"), f, 1)
    ELSE IF ~f.exists
    THEN Out(Raise("UnboundLocalError"), f, 1)
    ELSE Out(Return(parsed.val[2]), f, 1)

\* lines 47-50 of get_holiday_data: check what was parsed, then store it
StoreParsed(year, f, parsed) ==
    IF parsed.raised THEN Out(parsed, f, 1)
    ELSE IF parsed.val[1] # year \/ Len(parsed.val[2]) = 0
    THEN Out(Raise("Exception: Can not parse"), f, 1)
    ELSE IF ~f.exists                 \* all_holiday was never bound
    THEN Out(Raise("UnboundLocalError"), f, 1)
    ELSE Out(Return(parsed.val[2]),
             save_all_holiday(SetItem(read_all_holiday(f), year, parsed.val[2])),
             1)

\* lines 45-46 of get_holiday_data: locate the notice, then parse it
Refresh(year, f, url, pages) ==
    IF url.raised THEN Out(url, f, 1)
    ELSE StoreParsed(year, f, parse_holiday_info(url.val, pages))

\* get_holiday_data(year, force_refresh) on file f, the web being web
get_holiday_data(year, force_refresh, f, web) ==
    IF f.exists /\ year \in DOMAIN read_all_holiday(f) /\ ~force_refresh
    THEN Out(Return(read_all_holiday(f)[year]), f, 0)
    ELSE Refresh(year, f, search_notice_url(year, web.search[year]), web.pages)

Max(S) == CHOOSE x \in S : \A z \in S : x >= z

\* FirstHit with the scan running to the end of the list
FirstHit_LastWins(date_time, holiday_lines, hits) ==
    IF hits # {} THEN ~holiday_lines[Max(hits)][3]
    ELSE Weekday(date_time) \in {5, 6}

\* FirstHit with Sunday as the only day of the weekend
FirstHit_SundayOnly(date_time, holiday_lines, hits) ==
    IF hits # {} THEN ~holiday_lines[Min(hits)][3]
    ELSE Weekday(date_time) \in {6}

\* the scan of is_holiday over holiday_lines, then the weekend rule
FirstHit(date_time, holiday_lines, hits) ==
    IF hits # {} THEN ~holiday_lines[Min(hits)][3]
    ELSE Weekday(date_time) \in {5, 6}

Classify(date_time, holiday_lines) ==
    FirstHit(date_time, holiday_lines,
             {i \in 1..Len(holiday_lines) :
                 /\ date_time >= ToOrdinal(holiday_lines[i][1])
                 /\ date_time <= ToOrdinal(holiday_lines[i][2])})

\* is_holiday once get_holiday_data has answered g
Classified(date_str, g) ==
    IF g.raised THEN g
    ELSE IF Len(g.val) = 0
    THEN Out(Raise("AssertionError"), g.file, g.fetched)
    ELSE Out(Return(Classify(ToOrdinal(date_str), g.val)), g.file, g.fetched)

\* is_holiday(date_time) for a date string
is_holiday(date_str, f, web) ==
    Classified(date_str, get_holiday_data(YearOf(date_str), FALSE, f, web))

\* the loop of get_latest_workday from the day with ordinal start
RECURSIVE Walk(_, _, _, _)
\* WalkStep stepping back two days at a time
WalkStep_SkipsDay(start, h, web, fetched) ==
    IF h.raised THEN Out(h, h.file, fetched + h.fetched)
    ELSE IF ~h.val
    THEN Out(Return(FromOrdinal(start)), h.file, fetched + h.fetched)
    ELSE Walk(start - 2, h.file, web, fetched + h.fetched)

WalkStep(start, h, web, fetched) ==
    IF h.raised THEN Out(h, h.file, fetched + h.fetched)
    ELSE IF ~h.val
    THEN Out(Return(FromOrdinal(start)), h.file, fetched + h.fetched)
    ELSE Walk(start - 1, h.file, web, fetched + h.fetched)

Walk(start, f, web, fetched) ==
    WalkStep(start, is_holiday(FromOrdinal(start), f, web), web, fetched)

get_latest_workday(begin, f, web) == Walk(ToOrdinal(begin), f, web, 0)

\* the days of the intervals of all with need_work = work whose weekday
\* disagrees with it
DeltaDays(all, work) ==
    {FromOrdinal(n) : n \in UNION {UNION {
        {k \in ToOrdinal(all[y][i][1]) .. ToOrdinal(all[y][i][2]) :
            /\ all[y][i][3] = work
            /\ (IF work THEN Weekday(k) >= 5 ELSE Weekday(k) < 5)}
        : i \in 1..Len(all[y])} : y \in DOMAIN all}}

\* get_delta(): the days whose declared status differs from the weekday
\* default; each of the two lists is given as the set of its days
get_delta(f) ==
    [T |-> DeltaDays(read_all_holiday(f), TRUE),
     F |-> DeltaDays(read_all_holiday(f), FALSE)]

\* dict(all_holiday) for a list of (year, data) pairs: the last pair of a
\* year is the one kept
DictOf(pairs) ==
    [y \in {pairs[i][1] : i \in 1..Len(pairs)} |->
        pairs[CHOOSE i \in 1..Len(pairs) :
                  /\ pairs[i][1] = y
                  /\ \A j \in (i + 1)..Len(pairs) : pairs[j][1] # y][2]]

\* the loop of the command-line entry over range(2010, 2024 + 1); it ends
\* with the list all_holiday, or with the exception that stopped it
RECURSIVE MainLoop(_, _, _)
MainParsed(year, web, all_holiday, year_holiday) ==
    IF year_holiday.raised THEN year_holiday
    ELSE MainLoop(year + 1, web, Append(all_holiday, year_holiday.val))

MainLocated(year, web, all_holiday, notice_url) ==
    IF notice_url.raised THEN notice_url
    ELSE IF notice_url.val = None THEN MainLoop(year + 1, web, all_holiday)
    ELSE MainParsed(year, web, all_holiday,
                    parse_holiday_info(notice_url.val, web.pages))

MainLoop(year, web, all_holiday) ==
    IF year > LastYear THEN Return(all_holiday)
    ELSE MainLocated(year, web, all_holiday,
                     search_notice_url(year, web.search[year]))

\* save_all_holiday(dict(all_holiday)); print(get_delta())
MainSave(f, l) ==
    IF l.raised THEN Out(l, f, 1)
    ELSE Out(Return(get_delta(save_all_holiday(DictOf(l.val)))),
             save_all_holiday(DictOf(l.val)), 1)

\* the command-line entry: refresh every year, save, report the delta
main(f, web) == MainSave(f, MainLoop(FirstYear, web, <<>>))

(***************************************************************************)
(* The environment: what the search service and the notice pages answer    *)
(***************************************************************************)
WindowStart == ToOrdinal(<<2019, 12, 28>>)

SpecialDates == {<<2020, 1, 19>>, <<2020, 10, 3>>}

QueryDates ==
    {FromOrdinal(n) : n \in WindowStart .. (WindowStart + WindowDays)}
        \cup SpecialDates

QueryYears == {YearOf(d) : d \in QueryDates}

Url(y) == y

Annotation == <<Tok("lparen"), Tok("text"), Tok("rparen")>>

TitleLine(y) == <<Title(y), Tok("text")>>

\* "12月28日（星期六）、29日（星期日）上班。" in odd years,
\* "1月4日（星期六）、1月19日（星期日）上班。" in even years
GoodLine(y) ==
    IF y % 2 = 1
    THEN <<Day(0, 12, 28)>> \o Annotation \o <<Tok("sep"), Day(0, 0, 29)>>
            \o Annotation \o <<Tok("shangban"), Tok("period")>>
    ELSE <<Day(0, 1, 4)>> \o Annotation \o <<Tok("sep"), Day(0, 1, 19)>>
            \o Annotation \o <<Tok("shangban"), Tok("period")>>

\* "1月1日至3日放假，1月4日上班。"
SuspLine ==
    <<Day(0, 1, 1), Tok("zhi"), Day(0, 0, 3), Tok("fangjia"), Tok("comma"),
      Day(0, 1, 4), Tok("shangban"), Tok("period")>>

Scenarios ==
    {"good", "susp", "notitle", "empty", "mismatch", "nomatch", "transport"}

\* the scenarios tried when several years are refreshed in one call
BulkScenarios == {"good", "empty", "transport"}

PageOf(y, sc) ==
    IF sc = "susp" THEN Page("ok", <<TitleLine(y), SuspLine>>)
    ELSE IF sc = "notitle" THEN Page("ok", <<<<Tok("text")>>, GoodLine(y)>>)
    ELSE IF sc = "empty"
         THEN Page("ok", <<TitleLine(y), <<Day(0, 1, 19), Tok("shangban")>>>>)
    ELSE Page("ok", <<TitleLine(y), GoodLine(y)>>)

Reading(y) == Item(TRUE, <<"reading", y>>, TRUE, None)

OtherYear(y) == IF y + 1 \in QueryYears THEN y + 1 ELSE y - 1

SearchOf(y, sc) ==
    IF sc = "transport" THEN Response("error", "json", <<>>)
    ELSE IF sc = "nomatch" THEN Response("ok", "json", <<Reading(y)>>)
    ELSE IF sc = "mismatch"
         THEN Response("ok", "json",
                       <<Item(TRUE, NoticeTitle(y), TRUE, Url(OtherYear(y)))>>)
    ELSE Response("ok", "json",
                  <<Reading(y), Item(TRUE, NoticeTitle(y), TRUE, Url(y))>>)

\* the web when the notice of each query year follows scenario scs[y]; no
\* other year has a notice
Web(scs) ==
    [search |-> [y \in 1..9999 |->
                    IF y \in QueryYears THEN SearchOf(y, scs[y])
                    ELSE Response("ok", "json", <<Reading(y)>>)],
     pages  |-> [u \in QueryYears |-> PageOf(u, scs[u])]]

\* the web when year follows sc and the other years are served well
WebFor(year, sc) == Web([y \in QueryYears |-> IF y = year THEN sc ELSE "good"])

\* what locating and parsing the notice of year yields
Located(url, pages) ==
    IF url.raised THEN url ELSE parse_holiday_info(url.val, pages)

Pipeline(year, web) ==
    Located(search_notice_url(year, web.search[year]), web.pages)

(***************************************************************************)
(* Cache files found at start-up                                           *)
(***************************************************************************)
Store2019 ==
    <<  <<<<2019, 12, 30>>, <<2019, 12, 31>>, FALSE>>,
        <<<<2019, 12, 29>>, <<2019, 12, 29>>, TRUE>>  >>

Store2020 ==
    <<  <<<<2020, 1, 1>>, <<2020, 1, 3>>, FALSE>>,
        <<<<2020, 1, 2>>, <<2020, 1, 2>>, TRUE>>,
        <<<<2020, 1, 19>>, <<2020, 1, 19>>, TRUE>>,
        <<<<2020, 10, 1>>, <<2020, 10, 8>>, FALSE>>  >>

Store2020b ==
    <<  <<<<2020, 1, 2>>, <<2020, 1, 2>>, TRUE>>,
        <<<<2020, 1, 1>>, <<2020, 1, 3>>, FALSE>>  >>

InitFiles ==
    { File(FALSE, FALSE, EmptyDict),
      File(TRUE, FALSE, EmptyDict),
      File(TRUE, TRUE, EmptyDict),
      File(TRUE, TRUE, (2019 :> Store2019) @@ (2020 :> Store2020)),
      File(TRUE, TRUE, (2020 :> Store2020b)) }

ColdFiles == {f \in InitFiles : read_all_holiday(f) = EmptyDict}

(***************************************************************************)
(* State: the cache file and the last two calls                            *)
(***************************************************************************)
Call(op, date, force, input, r, before) ==
    [op |-> op, date |-> date, force |-> force, input |-> input,
     raised |-> r.raised, exc |-> r.exc, val |-> r.val,
     fetched |-> r.fetched, before |-> before, after |-> r.file]

NoCall ==
    Call("none", <<0, 0, 0>>, FALSE, <<>>, Out(Return(<<>>), <<>>, 0), <<>>)

\* what is kept of the call before the last one: its result when the last
\* call classifies the same date again
Summary(c, op, date) ==
    IF c.op = "is_holiday" /\ op = "is_holiday" /\ c.date = date
    THEN [op |-> c.op, raised |-> c.raised, val |-> c.val, fetched |-> c.fetched]
    ELSE [op |-> "other", raised |-> FALSE, val |-> <<>>, fetched |-> 0]

Init ==
    /\ file \in InitFiles
    /\ last = NoCall
    /\ prev = Summary(NoCall, "none", <<0, 0, 0>>)

GetHolidayData ==
    \E year \in QueryYears, force_refresh \in BOOLEAN, sc \in Scenarios :
        \E c \in {Call("get_holiday_data", <<year, 0, 0>>, force_refresh,
                Pipeline(year, WebFor(year, sc)),
                get_holiday_data(year, force_refresh, file, WebFor(year, sc)),
                file)} :
            /\ file' = c.after
            /\ last' = c
            /\ prev' = Summary(last, c.op, c.date)

IsHoliday ==
    \E d \in QueryDates, sc \in Scenarios :
        \E c \in {Call("is_holiday", d, FALSE, <<>>,
                is_holiday(d, file, WebFor(YearOf(d), sc)), file)} :
            /\ file' = c.after
            /\ last' = c
            /\ prev' = Summary(last, c.op, c.date)

GetLatestWorkday ==
    \E d \in QueryDates, scs \in [QueryYears -> BulkScenarios] :
        \E c \in {Call("get_latest_workday", d, FALSE, <<>>,
                get_latest_workday(d, file, Web(scs)), file)} :
            /\ file' = c.after
            /\ last' = c
            /\ prev' = Summary(last, c.op, c.date)

Main ==
    \E scs \in [QueryYears -> BulkScenarios] :
        \E c \in {Call("main", <<0, 0, 0>>, FALSE, <<>>, main(file, Web(scs)), file)} :
            /\ file' = c.after
            /\ last' = c
            /\ prev' = Summary(last, c.op, c.date)

Next == GetHolidayData \/ IsHoliday \/ GetLatestWorkday \/ Main

Spec == Init /\ [][Next]_vars

\* the same program started on a cache that is absent or holds no year
InitCold == Init /\ file \in ColdFiles

SpecCold == InitCold /\ [][Next]_vars

(***************************************************************************)
(* The parser on its own: pages drawn from a small grammar of notices      *)
(***************************************************************************)
Mentions ==
    {Day(y, m, d) : y \in {0, 2021}, m \in {0, 1, 10}, d \in {1, 8, 19}}
        \ {Day(2021, 0, d) : d \in {1, 8, 19}}

\* what may stand between two day mentions of a run
Joiners == {<<>>, <<Tok("sep")>>, Annotation \o <<Tok("sep")>>}

RECURSIVE Runs(_)
Runs(n) ==
    IF n = 1 THEN {<<mn>> : mn \in Mentions}
    ELSE {r \o j \o <<mn>> : r \in Runs(n - 1), j \in Joiners, mn \in Mentions}

WorkLines ==
    {r \o e : r \in UNION {Runs(n) : n \in 1..MaxRun},
              e \in {<<Tok("shangban"), Tok("period")>>, <<Tok("shangban")>>}}

SuspLines ==
    {<<s>> \o e \o <<Tok("fangjia")>> :
        s \in {mn \in Mentions : mn.m # 0},
        e \in {<<>>} \cup {<<Tok("zhi"), mn>> : mn \in Mentions}}

ParsePages ==
    {Page("ok", <<TitleLine(2020), l>>) : l \in WorkLines \cup SuspLines}
        \cup {Page("ok", <<TitleLine(2020), SuspLine>>),
              Page("ok", <<<<Tok("text")>>, GoodLine(2020)>>),
              Page("ok", <<>>),
              Page("no_content", <<>>),
              Page("error", <<>>)}

ParseHolidayInfo ==
    \E page \in ParsePages, url \in {None, Url(2020)} :
        /\ last.op = "none"
        /\ \E c \in {Call("parse_holiday_info", <<0, 0, 0>>, FALSE,
                   [url |-> url, page |-> page],
                   Out(parse_holiday_info(url, (Url(2020) :> page)), file, 1),
                   file)} :
               /\ file' = c.after
               /\ last' = c
               /\ prev' = Summary(last, c.op, c.date)

NextParse == ParseHolidayInfo

SpecParse == Init /\ [][NextParse]_vars

(***************************************************************************)
(* The locator on its own: responses with up to MaxItems results           *)
(***************************************************************************)
Items ==
    {Item(TRUE, NoticeTitle(y), TRUE, Url(y)) : y \in QueryYears}
        \cup {Reading(2020),
              Item(FALSE, NoticeTitle(2020), TRUE, Url(2020)),
              Item(TRUE, NoticeTitle(2020), FALSE, Url(2020))}

RECURSIVE Lists(_)
Lists(n) ==
    IF n = 0 THEN {<<>>}
    ELSE Lists(n - 1) \cup
         {Append(l, it) : l \in {x \in Lists(n - 1) : Len(x) = n - 1}, it \in Items}

Responses ==
    {Response("ok", "json", l) : l \in Lists(MaxItems)}
        \cup {Response("ok", "not_json", <<>>), Response("ok", "no_keys", <<>>),
              Response("error", "json", <<>>)}

SearchNoticeUrl ==
    \E year \in QueryYears, resp \in Responses :
        /\ last.op = "none"
        /\ \E c \in {Call("search_notice_url", <<year, 0, 0>>, FALSE, resp,
                   Out(search_notice_url(year, resp), file, 1), file)} :
               /\ file' = c.after
               /\ last' = c
               /\ prev' = Summary(last, c.op, c.date)

NextSearch == SearchNoticeUrl

SpecSearch == Init /\ [][NextSearch]_vars

(***************************************************************************)
(* Properties.  The notions they use are stated on date triples, not on    *)
(* ordinals: order is lexicographic, the weekday comes from Zeller's       *)
(* congruence.                                                             *)
(***************************************************************************)
DateLE(a, b) ==
    \/ a[1] < b[1]
    \/ a[1] = b[1] /\ a[2] < b[2]
    \/ a[1] = b[1] /\ a[2] = b[2] /\ a[3] <= b[3]

Contains(iv, d) == DateLE(iv[1], d) /\ DateLE(d, iv[2])

\* Zeller's congruence: 0 is Saturday, 1 is Sunday
Zeller(d) ==
    LET mm == IF d[2] < 3 THEN d[2] + 12 ELSE d[2]
        yy == IF d[2] < 3 THEN d[1] - 1 ELSE d[1]
    IN  (d[3] + ((13 * (mm + 1)) \div 5) + (yy % 100) + ((yy % 100) \div 4)
            + ((yy \div 100) \div 4) + 5 * (yy \div 100)) % 7

IsWeekendDay(d) == Zeller(d) \in {0, 1}

\* the cache file f holds a record for year y
Stored(f, y) == f.exists /\ f.valid /\ y \in DOMAIN f.store

\* the cache file f holds a non-empty interval list for year y
HasData(f, y) == Stored(f, y) /\ Len(f.store[y]) > 0

\* the intervals of lines that contain d and follow no other that does
FirstContaining(lines, d) ==
    {i \in 1..Len(lines) :
        /\ Contains(lines[i], d)
        /\ \A j \in 1..(i - 1) : ~Contains(lines[j], d)}

LastYearOfCall == YearOf(last.date)

LinesBefore == last.before.store[LastYearOfCall]

\* C1: when the year of d is cached with a non-empty list and some interval
\* contains d, is_holiday(d) returns the negation of is_workday of the first
\* such interval in stored order, whatever the weekday and the later intervals
C1_FirstIntervalDecides ==
    (last.op = "is_holiday" /\ HasData(last.before, LastYearOfCall)) =>
        \A i \in FirstContaining(LinesBefore, last.date) :
            ~last.raised /\ last.val = ~LinesBefore[i][3]

\* is_holiday has answered for a date that two stored intervals of opposite
\* kinds contain
C1_Witness ==
    /\ last.op = "is_holiday" /\ ~last.raised
    /\ HasData(last.before, LastYearOfCall)
    /\ \E i \in FirstContaining(LinesBefore, last.date) :
           \E j \in (i + 1)..Len(LinesBefore) :
               /\ Contains(LinesBefore[j], last.date)
               /\ LinesBefore[j][3] # LinesBefore[i][3]
               /\ last.val = ~LinesBefore[i][3]

\* C2: when the year of d is cached and no cached interval contains d,
\* is_holiday(d) returns true exactly when d is a Saturday or a Sunday
C2_WeekendFallback ==
    (/\ last.op = "is_holiday" /\ HasData(last.before, LastYearOfCall)
     /\ FirstContaining(LinesBefore, last.date) = {}) =>
        (~last.raised /\ last.val = IsWeekendDay(last.date))

\* is_holiday has answered true for a Saturday that no stored interval contains
C2_Witness ==
    /\ last.op = "is_holiday" /\ ~last.raised
    /\ HasData(last.before, LastYearOfCall)
    /\ FirstContaining(LinesBefore, last.date) = {}
    /\ Zeller(last.date) = 0
    /\ last.val = TRUE

\* the notice located and parsed for the last call is one of the requested
\* year with at least one interval
PipelineOk ==
    /\ ~last.input.raised
    /\ last.input.val[1] = LastYearOfCall
    /\ Len(last.input.val[2]) > 0

\* C3: on a cache miss (no file yet, or no entry for the year), when locator
\* and parser succeed with the requested year and at least one interval,
\* get_holiday_data returns the parsed list and the file then exists and maps
\* the year to that list
C3_MissFillsCache ==
    (/\ last.op = "get_holiday_data"
     /\ ~(last.before.exists /\ LastYearOfCall \in DOMAIN read_all_holiday(last.before))
     /\ PipelineOk) =>
        /\ ~last.raised
        /\ last.val = last.input.val[2]
        /\ Stored(file, LastYearOfCall)
        /\ file.store[LastYearOfCall] = last.input.val[2]

\* the last call of get_holiday_data had to refresh the year
Refreshing ==
    \/ last.force
    \/ ~(last.before.exists /\ LastYearOfCall \in DOMAIN read_all_holiday(last.before))

\* C4: when a refresh through get_holiday_data fails (no title pattern, another
\* year than the requested one, or no interval), the call raises and the cache
\* file is exactly what it was before the call
C4_FailedRefreshKeepsFile ==
    (last.op = "get_holiday_data" /\ Refreshing /\ ~PipelineOk) =>
        (last.raised /\ file = last.before)

\* a forced refresh of a cached year has met a notice of another year or
\* without intervals
C4_Witness ==
    /\ last.op = "get_holiday_data" /\ last.force
    /\ HasData(last.before, LastYearOfCall)
    /\ ~last.input.raised /\ ~PipelineOk
    /\ last.raised /\ file = last.before

\* C5: classifying the same date twice in a row gives the same result, and
\* the second call asks the web for nothing and leaves the file as the first
\* call left it
C5_SecondCallFromCache ==
    (prev.op = "is_holiday" /\ ~prev.raised) =>
        /\ last.op = "is_holiday" /\ ~last.raised
        /\ last.val = prev.val
        /\ last.fetched = 0
        /\ file = last.before

\* the first of the two calls fetched the notice, the second returned
C5_Witness ==
    /\ prev.op = "is_holiday" /\ ~prev.raised /\ prev.fetched = 1
    /\ last.op = "is_holiday" /\ ~last.raised

\* is_holiday as the cache file f decides it for date d
HolidayBy(f, d) ==
    IF FirstContaining(f.store[YearOf(d)], d) # {}
    THEN \A i \in FirstContaining(f.store[YearOf(d)], d) : ~f.store[YearOf(d)][i][3]
    ELSE IsWeekendDay(d)

\* the calendar days after a, up to and including b
DaysAfterUpTo(a, b) ==
    {e \in {<<y, m, d>> : y \in YearOf(a)..YearOf(b), m \in 1..12, d \in 1..31} :
        /\ e[3] <= DaysInMonth(e[1], e[2])
        /\ ~DateLE(e, a) /\ DateLE(e, b)}

\* C6: get_latest_workday(from_date) returns a date d <= from_date that is
\* no holiday, every date after d up to from_date being a holiday, also when
\* the walk crosses into the previous year
C6_LatestWorkday ==
    (last.op = "get_latest_workday" /\ ~last.raised) =>
        /\ DateLE(last.val, last.date)
        /\ HasData(file, YearOf(last.val))
        /\ ~HolidayBy(file, last.val)
        /\ \A e \in DaysAfterUpTo(last.val, last.date) :
               HasData(file, YearOf(e)) /\ HolidayBy(file, e)

\* the walk has ended in the year before the one it started in
C6_Witness ==
    /\ last.op = "get_latest_workday" /\ ~last.raised
    /\ YearOf(last.val) < YearOf(last.date)

(***************************************************************************)
(* Properties of the parser and of the locator                             *)
(***************************************************************************)
\* the last call parsed a page that was fetched and starts with the title
ParsedNotice ==
    /\ last.op = "parse_holiday_info"
    /\ last.input.url # None
    /\ last.input.page.status = "ok"
    /\ MatchYear(Join(last.input.page.lines)) # 0

NoticeYear == MatchYear(Join(last.input.page.lines))

\* a suspension phrase starts at token i of line
SuspensionAt(line, i) ==
    /\ IsTok(line, i, "date") /\ line[i].m # 0
    /\ \/ IsTok(line, i + 1, "fangjia")
       \/ /\ IsTok(line, i + 1, "zhi") /\ IsTok(line, i + 2, "date")
          /\ IsTok(line, i + 3, "fangjia")

\* the interval the phrase at i stands for in a notice of year y: a missing
\* year is y, a missing month of the end is the month of the start, and the
\* end is the start when none is written
SuspensionOf(line, i, y) ==
    LET start == <<IF line[i].y = 0 THEN y ELSE line[i].y, line[i].m, line[i].d>>
        end == IF IsTok(line, i + 1, "zhi")
               THEN <<IF line[i + 2].y = 0 THEN y ELSE line[i + 2].y,
                      IF line[i + 2].m = 0 THEN line[i].m ELSE line[i + 2].m,
                      line[i + 2].d>>
               ELSE start
    IN  <<start, end, FALSE>>

\* C7: for every line with a suspension phrase "start[至end]放假" the parser
\* emits the interval (start, end, false) in ISO form, the end being the date
\* written after 至, or the start when none is written
C7_SuspensionInterval ==
    ParsedNotice =>
        \A k \in 1..Len(last.input.page.lines) :
            \A i \in 1..Len(fix_line(last.input.page.lines[k])) :
                SuspensionAt(fix_line(last.input.page.lines[k]), i) =>
                    /\ ~last.raised
                    /\ \E n \in 1..Len(last.val[2]) :
                           last.val[2][n] =
                               SuspensionOf(fix_line(last.input.page.lines[k]),
                                            i, NoticeYear)

\* the day mentions of a run, in order
RECURSIVE MentionsOf(_)
MentionsOf(run) ==
    IF run = <<>> THEN <<>>
    ELSE IF Head(run).t = "date" THEN <<Head(run)>> \o MentionsOf(Tail(run))
    ELSE MentionsOf(Tail(run))

\* the month of mention k: its own, or that of the mention before it
RECURSIVE MonthOf(_, _)
MonthOf(ms, k) ==
    IF ms[k].m # 0 \/ k = 1 THEN ms[k].m ELSE MonthOf(ms, k - 1)

\* the intervals a run of day mentions stands for in a notice of year y
WorkdaysOf(ms, y) ==
    [k \in 1..Len(ms) |->
        <<  <<IF ms[k].y = 0 THEN y ELSE ms[k].y, MonthOf(ms, k), ms[k].d>>,
            <<IF ms[k].y = 0 THEN y ELSE ms[k].y, MonthOf(ms, k), ms[k].d>>,
            TRUE  >>]

\* line is a run of day mentions, the first with its month, followed by 上班
WorkdayLine(line) ==
    /\ IsTok(line, 1, "date") /\ line[1].m # 0
    /\ IsTok(line, RunEnd(line, 1), "shangban")

\* C8: for a line with a run of day mentions followed by 上班 the parser emits
\* one interval (d, d, true) per mention, left to right, a missing month being
\* that of the preceding mention and a missing year the year of the notice
C8_WorkdayIntervals ==
    (ParsedNotice /\ Len(last.input.page.lines) = 2
        /\ WorkdayLine(fix_line(last.input.page.lines[2]))) =>
        /\ ~last.raised
        /\ last.val[2] =
               WorkdaysOf(MentionsOf(SubSeq(fix_line(last.input.page.lines[2]), 1,
                              RunEnd(fix_line(last.input.page.lines[2]), 1) - 1)),
                          NoticeYear)

\* every item of the response carries both keys
WellFormed(resp) ==
    \A k \in 1..Len(resp.list) : resp.list[k].has_title /\ resp.list[k].has_url

\* the items of the response with exactly the title of the notice of year y
Exact(resp, y) ==
    {k \in 1..Len(resp.list) : resp.list[k].title = NoticeTitle(y)}

\* C9: search_notice_url never raises; it returns the URL of the first result
\* with exactly the expected title, and None when there is none, when the
\* response cannot be read, and when the search call fails
C9_LocatorNeverRaises ==
    (last.op = "search_notice_url") =>
        /\ ~last.raised
        /\ (last.input.post = "ok" /\ last.input.body = "json"
                /\ WellFormed(last.input) /\ Exact(last.input, LastYearOfCall) # {})
             => last.val = last.input.list[Min(Exact(last.input, LastYearOfCall))].url
        /\ (last.input.post # "ok" \/ last.input.body # "json"
                \/ (WellFormed(last.input) /\ Exact(last.input, LastYearOfCall) = {}))
             => last.val = None

\* C10: started on an empty or absent cache, after any refreshes every year
\* in the persisted store maps to a non-empty interval list
C10_NoEmptyYear ==
    \A y \in DOMAIN read_all_holiday(file) : Len(read_all_holiday(file)[y]) > 0

====
